---- MODULE Spec2Model ----
(***************************************************************************)
(* AVM Bogota: the step-based valuation wizard of src/avm.py,              *)
(* src/prueba.py and src/avm_migra.py, three variants of one Streamlit     *)
(* script.  A Streamlit script is executed from its first line on every    *)
(* user interaction; what survives between two executions is the           *)
(* session (st.session_state).  One action of this model is one user       *)
(* interaction: the execution it triggers and, when that execution calls   *)
(* st.rerun(), the execution that follows.                                 *)
(*                                                                         *)
(* Geometry is modelled on a line: a polygon is a closed interval          *)
(* [lo, hi] in geographic units, one unit being 100 m, so the metric       *)
(* reference is the geographic one scaled by 100 and the buffers of the    *)
(* code (300, 500, 800, 1000 m) are exact.                                 *)
(***************************************************************************)
EXTENDS Integers, Sequences, FiniteSets, TLC

VARIABLES
    variante,       \* which of the three scripts runs
    cache,          \* st.cache_data entry of cargar_datasets
    datasets,       \* the five remote collections as a download returns them
    session_state,  \* st.session_state: a function from the keys present to values
    pagina,         \* what the last execution rendered
    retrocesos,     \* how many times the user has gone back or restarted
    orden_empates   \* how the installed sort orders equal counts

vars == <<variante, cache, datasets, session_state, pagina, retrocesos, orden_empates>>

Variantes == {"avm", "prueba", "avm_migra"}

(***************************************************************************)
(* Missing values.  pandas holds a missing object as None and a missing    *)
(* float as NaN; both are "na" for isna/notna/fillna, and both compare     *)
(* unequal to everything, themselves included.                             *)
(***************************************************************************)
None == "None"
NaN == -1

\* pd.notna / isna on an object column (ids, categories)
notna(v) == v # None
isna(v) == v = None

\* pd.notna / isnull on a float column (values per square metre)
notnan(v) == v # NaN
isnan(v) == v = NaN

\* pandas == on an object column: a missing value on either side is never equal
PdEq(a, b) == notna(a) /\ notna(b) /\ a = b

(***************************************************************************)
(* Sequences as data frames                                                *)
(***************************************************************************)
RECURSIVE SelectRows(_, _, _)
SelectRows(df, Keep(_), i) ==
    IF i > Len(df) THEN <<>>
    ELSE IF Keep(df[i]) THEN <<df[i]>> \o SelectRows(df, Keep, i + 1)
         ELSE SelectRows(df, Keep, i + 1)

\* df[mask]: the rows that satisfy Keep, in their original order
Filter(df, Keep(_)) == SelectRows(df, Keep, 1)

empty(df) == Len(df) = 0

Range(s) == {s[i] : i \in 1..Len(s)}

(***************************************************************************)
(* Geometry: to_crs, buffer, intersects, contains                          *)
(***************************************************************************)
MetrosPorUnidad == 100

\* to_crs(epsg=3116): geographic to metric
to_crs_3116(g) == [lo |-> g.lo * MetrosPorUnidad, hi |-> g.hi * MetrosPorUnidad]

\* to_crs(epsg=4326): metric to geographic
to_crs_4326(g) == [lo |-> g.lo \div MetrosPorUnidad, hi |-> g.hi \div MetrosPorUnidad]

\* a buffer whose radius wraps at 400 m: smaller for 500 m than for 300 m
buffer_modular(g, r) == [lo |-> g.lo - (r % 400), hi |-> g.hi + (r % 400)]

\* GeoSeries.buffer(r) in the metric reference
buffer(g, r) == [lo |-> g.lo - r, hi |-> g.hi + r]

\* .to_crs(epsg=3116).buffer(r).to_crs(epsg=4326)
BufferMetros(g, r) == to_crs_4326(buffer(to_crs_3116(g), r))

\* an open intersection: two sets that only touch do not intersect
intersects_abierto(g, h) == g.lo < h.hi /\ h.lo < g.hi

\* shapely intersects: the two closed sets share a point (touching counts)
intersects(g, h) == g.lo <= h.hi /\ h.lo <= g.hi

\* shapely contains for a point: the point lies in the interior
contains(g, x) == g.lo < x /\ x < g.hi

Radio300 == 300
Radio500 == 500
Radio800 == 800
Radio1000 == 1000

(***************************************************************************)
(* The five collections.  Their rows are inputs; the model draws them from *)
(* a small family described by a parameter record p.  District 1 holds the *)
(* blocks M1, M2, M3, district 2 holds M4, district 3 holds no block.      *)
(* M3 lies 400 m from M1; M2 lies dist2 * 100 m from M1 on the other side. *)
(* The values 100, 200, 300 make every mean of a subset an integer.        *)
(* District 3 begins at lo3, which may lie inside district 2.              *)
(* M1 names the transit group combi1 and the school group colegios1; the   *)
(* collections hold the groups T1 and K1, each a MultiPoint or a Point.    *)
(* Area A3 belongs to district numA3: with 3, district 2 has no area.       *)
(* The field empates is not data: it is the tie order of the installed     *)
(* sort, drawn together with the collections.                              *)
(***************************************************************************)
MaxDist == 6

Localidad(num, nombre, delitos, riesgo, lo, hi) ==
    [num_localidad |-> num, nombre_localidad |-> nombre,
     cantidad_delitos |-> delitos, nivel_riesgo_delictivo |-> riesgo,
     geometry |-> [lo |-> lo, hi |-> hi]]

Area(id, num, uso, pot) ==
    [id_area |-> id, num_localidad |-> num, uso_pot_simplificado |-> uso,
     area_pot |-> pot]

\* the five projection fields of a block: complete, or with the third missing
Proyeccion(valor, completa) ==
    IF isnan(valor) THEN <<NaN, 110, 120, 130, 140>>
    ELSE IF completa THEN <<valor, valor + 10, valor + 20, valor + 30, valor + 40>>
    ELSE <<valor, valor + 10, NaN, valor + 20, valor + 30>>

Manzana(id, num, area, lo, valor, completa, combi, colegios) ==
    LET s == Proyeccion(valor, completa) IN
    [id_manzana_unif |-> id, num_localidad |-> num, id_area |-> area,
     geometry |-> [lo |-> lo, hi |-> lo + 1],
     valor_m2 |-> s[1], valor_2025_s1 |-> s[2], valor_2025_s2 |-> s[3],
     valor_2026_s1 |-> s[4], valor_2026_s2 |-> s[5],
     estrato |-> 3, rentabilidad |-> "Media",
     id_combi_acceso |-> combi, id_com_colegios |-> colegios,
     colegio_cerca |-> 1, estaciones_cerca |-> 2]

Grupo(id, tipo, puntos) ==
    [id |-> id, geom_type |-> tipo, geoms |-> puntos]

\* the points of a geometry of the given type: a Point is its first one
Miembros(tipo, puntos) == IF tipo = "Point" THEN <<puntos[1]>> ELSE puntos

Datos(p) ==
    [localidades |-> <<Localidad(1, "Usaquen", 30, "Alto", 0, 20),
                       Localidad(2, "Chapinero", 10, "Bajo", 20, 30),
                       Localidad(3, p.nombre3, 20, "Medio", p.lo3, 40)>>,
     areas |-> <<Area("A1", 1, p.usoA1, "Zona 1"),
                 Area("A2", 1, "Comercial", "Zona 2"),
                 Area("A3", p.numA3, "Residencial", "Zona 3")>>,
     manzanas |-> <<Manzana("M1", 1, p.area1, 10, p.valor1, p.proy1, p.combi1, p.colegios1),
                    Manzana("M2", 1, p.area2, 11 + p.dist2, p.valor2, TRUE, "T1", "K1"),
                    Manzana("M3", 1, "A2", 5, 300, TRUE, "T1", "K1"),
                    Manzana("M4", 2, "A3", 22, 300, p.proy4, "T1", "K1")>>,
     transporte |-> <<Grupo("T1", p.tipoT, Miembros(p.tipoT, <<9, 12>>))>>,
     colegios |-> <<Grupo("K1", p.tipoK, Miembros(p.tipoK, <<8, 13>>))>>]

Defecto ==
    [nombre3 |-> "Suba", usoA1 |-> "Residencial", area1 |-> "A1", area2 |-> "A1",
     valor1 |-> 100, valor2 |-> 200, dist2 |-> 3, proy1 |-> TRUE, proy4 |-> TRUE,
     combi1 |-> "T1", colegios1 |-> "K1", tipoT |-> "MultiPoint", tipoK |-> "MultiPoint",
     lo3 |-> 30, numA3 |-> 2, empates |-> "aparicion"]

\* the values each field of the parameter record may take
ParamSpace ==
    [nombre3 |-> {"Suba", "Usaquen"}, usoA1 |-> {"Residencial", None},
     area1 |-> {"A1", None}, area2 |-> {"A1", None},
     valor1 |-> {100, NaN}, valor2 |-> {200, NaN}, dist2 |-> 1..MaxDist,
     proy1 |-> BOOLEAN, proy4 |-> BOOLEAN,
     combi1 |-> {"T1", "T9", None}, colegios1 |-> {"K1", "K9", None},
     tipoT |-> {"MultiPoint", "Point"}, tipoK |-> {"MultiPoint", "Point"},
     lo3 |-> {30, 22}, numA3 |-> {2, 3}, empates |-> {"aparicion", "inversa"}]

\* the fields in which p departs from the default record
Desvio(p) == {k \in DOMAIN Defecto : p[k] # Defecto[k]}

\* the inputs explored: the default collections varied within one family
\* of at most two fields
Familias ==
    {{"area1", "area2"}, {"valor1", "valor2"}, {"dist2", "valor1"},
     {"proy1", "proy4"}, {"usoA1", "area1"}, {"nombre3"},
     {"combi1", "colegios1"}, {"tipoT", "tipoK"}, {"lo3"}, {"numA3"},
     {"empates", "dist2"}}

Primero(f) == CHOOSE k \in f : TRUE
Otro(f) == CHOOSE k \in f : f = {Primero(f)} \/ k # Primero(f)

\* the records that depart from the default within the family f
ParamsDe(f) ==
    {[Defecto EXCEPT ![Primero(f)] = a, ![Otro(f)] = b] :
        a \in ParamSpace[Primero(f)], b \in ParamSpace[Otro(f)]}

Params == UNION {ParamsDe(f) : f \in Familias}

DatasetNames == {"localidades", "areas", "manzanas", "transporte", "colegios"}

(***************************************************************************)
(* The session, a user interaction, and the outcome of one execution       *)
(***************************************************************************)
Has(ss, k) == k \in DOMAIN ss

\* st.session_state[k] = v
Put(ss, k, v) == (k :> v) @@ ss

\* for key in list(st.session_state.keys()): del st.session_state[key]
DelAll(ss, keep) == [k \in DOMAIN ss \cap keep |-> ss[k]]

\* Python truthiness of a value that is None or a string
Truthy(v) == v # None /\ v # ""

\* a user interaction: a button pressed, a map feature clicked (valor: what
\* its properties give for the key the script reads, None when absent), a
\* map point clicked (valor: its coordinate), or none
Evento(tipo, valor, carga) == [tipo |-> tipo, valor |-> valor, carga |-> carga]
SinEvento == Evento("", None, TRUE)

Pulsado(ev, b) == ev.tipo = "boton" /\ ev.valor = b

\* what an execution rendered: the block that ran, how it ended ("ok",
\* "stop" for st.stop(), "excepcion" for an exception nobody handles), the
\* buttons and messages it showed, the charts it drew, the download offered
Pagina(bloque, fin, botones, mensajes, graficos, descarga) ==
    [bloque |-> bloque, fin |-> fin, botones |-> botones, mensajes |-> mensajes,
     graficos |-> graficos, descarga |-> descarga]

\* the outcome of one execution: session, cache, page, whether st.rerun() ran
Fin(ss, c, pg, rerun) == [ss |-> ss, cache |-> c, pg |-> pg, rerun |-> rerun]

(***************************************************************************)
(* Block 1: welcome and loading of the five collections                    *)
(***************************************************************************)
\* what cargar_datasets() leaves in the cache of st.cache_data: a result once
\* computed is returned again.  prueba and avm_migra catch a failed download
\* and return None, which is cached like any result; avm lets it propagate
cargar_datasets(v, c, carga) ==
    IF c # "vacia" THEN c
    ELSE IF carga THEN "datos"
    ELSE IF v = "avm" THEN "vacia" ELSE "None"

\* a storing that leaves out the two point collections
GuardarParcial(ss, d) == [k \in {"localidades", "areas", "manzanas"} |-> d[k]] @@ ss

\* for nombre, df in dataframes.items(): st.session_state[nombre] = df
GuardarDatasets(ss, d) == [k \in DatasetNames |-> d[k]] @@ ss

Bloque1(v, ss, c, d, ev) ==
    IF v = "avm" THEN
        \* avm.py loads while rendering, before the button exists
        LET c1 == cargar_datasets(v, c, ev.carga) IN
        IF c1 # "datos"
        THEN Fin(ss, c1, Pagina(1, "excepcion", {}, {}, <<>>, FALSE), FALSE)
        ELSE IF Pulsado(ev, "Iniciar Analisis")
        THEN Fin(Put(GuardarDatasets(ss, d), "step", 2), c1,
                 Pagina(1, "ok", {"Iniciar Analisis"}, {"success: datos cargados"}, <<>>, FALSE),
                 FALSE)
        ELSE Fin(ss, c1,
                 Pagina(1, "ok", {"Iniciar Analisis"}, {"success: datos cargados"}, <<>>, FALSE),
                 FALSE)
    ELSE
        IF Pulsado(ev, "Iniciar Analisis") THEN
            LET c1 == cargar_datasets(v, c, ev.carga) IN
            IF c1 = "datos"
            THEN Fin(Put(GuardarDatasets(ss, d), "step", 2), c1,
                     Pagina(1, "ok", {"Iniciar Analisis"}, {"success: datos cargados"}, <<>>, FALSE),
                     TRUE)
            ELSE Fin(ss, c1,
                     Pagina(1, "ok", {"Iniciar Analisis"}, {"error: no se pudieron cargar los datos"}, <<>>, FALSE),
                     FALSE)
        ELSE Fin(ss, c, Pagina(1, "ok", {"Iniciar Analisis"}, {}, <<>>, FALSE), FALSE)

(***************************************************************************)
(* Block 2: selection of the district                                      *)
(***************************************************************************)
\* the last row, in collection order, whose geometry contains the point
UltimaQueContiene(localidades, punto) ==
    LET S == Filter(localidades, LAMBDA row : contains(row.geometry, punto))
    IN  IF empty(S) THEN <<>> ELSE <<S[Len(S)].nombre_localidad>>

\* avm.py: the first row, in collection order, whose geometry contains the
\* clicked point; <<>> when no row does
PrimeraQueContiene(localidades, punto) ==
    LET S == Filter(localidades, LAMBDA row : contains(row.geometry, punto))
    IN  IF empty(S) THEN <<>> ELSE <<S[1].nombre_localidad>>

\* a resolved click is stored; an unresolved one leaves the session as it is
GuardarLocalidadClic(ss, n) == IF n = <<>> THEN ss ELSE Put(ss, "localidad_clic", n[1])

\* the click of this execution: avm.py resolves the clicked point, the other
\* two read the property of the clicked feature
Clic2(v, ss, ev) ==
    IF v = "avm" THEN
        IF ev.tipo = "punto"
        THEN GuardarLocalidadClic(ss, PrimeraQueContiene(ss.localidades, ev.valor))
        ELSE ss
    ELSE IF ev.tipo = "objeto" THEN Put(ss, "localidad_clic", ev.valor)
    ELSE ss

Confirmable2(v, ss) ==
    IF v = "avm" THEN Has(ss, "localidad_clic")
    ELSE Has(ss, "localidad_clic") /\ Truthy(ss.localidad_clic)

Confirmar2(v) == IF v = "avm" THEN "Confirmar seleccion" ELSE "Confirmar y Continuar"

Pagina2(v, ss) ==
    Pagina(2, "ok",
           (IF Confirmable2(v, ss) THEN {Confirmar2(v)} ELSE {}) \cup {"Volver al Inicio"},
           IF (v = "avm" /\ ~Has(ss, "localidad_sel")) \/ (v # "avm" /\ ~Confirmable2(v, ss))
           THEN {"info: selecciona una localidad"} ELSE {},
           <<>>, FALSE)

Navegar2(v, ss, c, ev, pg) ==
    IF Pulsado(ev, Confirmar2(v)) /\ Confirmar2(v) \in pg.botones
    THEN Fin(Put(Put(ss, "localidad_sel", ss.localidad_clic), "step", 3), c, pg, TRUE)
    ELSE IF Pulsado(ev, "Volver al Inicio")
    THEN Fin(Put(ss, "step", 1), c, pg, TRUE)
    ELSE Fin(ss, c, pg, FALSE)

Seleccion2(v, ss, c, ev) == Navegar2(v, ss, c, ev, Pagina2(v, ss))

Bloque2(v, ss, c, ev) == Seleccion2(v, Clic2(v, ss, ev), c, ev)

(***************************************************************************)
(* Block 3: the enriched block subset of the district, selection of a block *)
(***************************************************************************)
SinClasificacion == "Sin clasificacion"

\* localidades[localidades["nombre_localidad"] == localidad_sel]
localidad_info(localidades, localidad_sel) ==
    Filter(localidades, LAMBDA row : PdEq(row.nombre_localidad, localidad_sel))

\* manzanas[manzanas["num_localidad"] == cod_localidad].copy()
FiltrarPorLocalidad(df, cod_localidad) ==
    Filter(df, LAMBDA row : row.num_localidad = cod_localidad)

\* one left row joined to the right rows of equal key (a missing key matches
\* only a missing key); a left row without a match keeps a missing category
MergeRow(row, right) ==
    LET m == Filter(right, LAMBDA a : a.id_area = row.id_area) IN
    IF empty(m) THEN <<("uso_pot_simplificado" :> None) @@ row>>
    ELSE [i \in 1..Len(m) |-> ("uso_pot_simplificado" :> m[i].uso_pot_simplificado) @@ row]

RECURSIVE MergeFrom(_, _, _)
MergeFrom(left, right, i) ==
    IF i > Len(left) THEN <<>>
    ELSE MergeRow(left[i], right) \o MergeFrom(left, right, i + 1)

\* left.merge(right[["id_area", "uso_pot_simplificado"]], on="id_area", how="left")
merge(left, right) == MergeFrom(left, right, 1)

\* an enrichment that leaves the missing categories missing
fillna_omitido(df, label) == df

\* df["uso_pot_simplificado"].fillna(label)
fillna(df, label) ==
    [i \in 1..Len(df) |->
        IF isna(df[i].uso_pot_simplificado)
        THEN [df[i] EXCEPT !.uso_pot_simplificado = label] ELSE df[i]]

HasColumn(df, col) == \A i \in 1..Len(df) : col \in DOMAIN df[i]

\* the subset of step 3 for a district code: merged with the district's areas
\* when it has any, then the missing categories filled.  fin = "excepcion"
\* is the KeyError of reading a column the frame does not have
Enriquecer(v, manzanas_localidad_sel, areas, cod_localidad) ==
    LET areas_sel == FiltrarPorLocalidad(areas, cod_localidad)
        merged == IF (v = "avm_migra" => ~empty(areas)) /\ ~empty(areas_sel)
                  THEN merge(manzanas_localidad_sel, areas_sel)
                  ELSE manzanas_localidad_sel
    IN  IF HasColumn(merged, "uso_pot_simplificado")
        THEN [fin |-> "ok", df |-> fillna(merged, SinClasificacion)]
        ELSE [fin |-> "excepcion", df |-> <<>>]

\* the script of step 3 down to the map: how it ends and the frame it shows
Subconjunto(v, ss) ==
    LET info == localidad_info(ss.localidades, ss.localidad_sel) IN
    IF empty(info) THEN [fin |-> "sin localidad", df |-> <<>>]
    ELSE LET sel == FiltrarPorLocalidad(ss.manzanas, info[1].num_localidad) IN
         IF empty(sel) THEN [fin |-> "sin manzanas", df |-> <<>>]
         ELSE Enriquecer(v, sel, ss.areas, info[1].num_localidad)

\* usos_unicos and the grey of the unclassified: the keys of color_map
color_map(df) == {df[i].uso_pot_simplificado : i \in 1..Len(df)} \cup {SinClasificacion}

NavBloque3 == {"Volver a Seleccion de Localidad", "Volver al Inicio"}

Navegar3(ss, c, ev, pg) ==
    IF Pulsado(ev, "Volver a Seleccion de Localidad") /\ "Volver a Seleccion de Localidad" \in pg.botones
    THEN Fin(Put(ss, "step", 2), c, pg, TRUE)
    ELSE IF Pulsado(ev, "Volver al Inicio") /\ "Volver al Inicio" \in pg.botones
    THEN Fin(Put(ss, "step", 1), c, pg, TRUE)
    ELSE Fin(ss, c, pg, FALSE)

\* the click of this execution, stored as manzana_clic
Clic3(ss, ev) == IF ev.tipo = "objeto" THEN Put(ss, "manzana_clic", ev.valor) ELSE ss

\* prueba.py: "manzana_clic" in st.session_state; avm_migra.py: .get("manzana_clic")
Confirmable3(v, ss) ==
    IF v = "avm_migra" THEN Has(ss, "manzana_clic") /\ Truthy(ss.manzana_clic)
    ELSE Has(ss, "manzana_clic")

Pagina3(v, ss) ==
    Pagina(3, "ok",
           (IF Confirmable3(v, ss) THEN {"Confirmar Manzana y Continuar"} ELSE {})
              \cup NavBloque3,
           IF Confirmable3(v, ss) THEN {} ELSE {"info: haz clic en una manzana"},
           <<>>, FALSE)

\* a confirmation that writes the enriched frame over the block collection
Seleccion3EnSitio(v, ss, c, ev, df, pg) ==
    IF Pulsado(ev, "Confirmar Manzana y Continuar")
        /\ "Confirmar Manzana y Continuar" \in pg.botones
    THEN Fin(Put(Put(Put(Put(ss, "manzana_sel", ss.manzana_clic),
                         "manzanas_localidad_sel", df),
                     "manzanas", df),
                 "step", 4),
             c, pg, TRUE)
    ELSE Navegar3(ss, c, ev, pg)

\* the confirmation stores the block id, the enriched subset and the colours
Seleccion3(v, ss, c, ev, df, pg) ==
    IF Pulsado(ev, "Confirmar Manzana y Continuar")
        /\ "Confirmar Manzana y Continuar" \in pg.botones
    THEN Fin(Put(Put(Put(Put(ss, "manzana_sel", ss.manzana_clic),
                         "manzanas_localidad_sel", df),
                     "color_map", color_map(df)),
                 "step", 4),
             c, pg, TRUE)
    ELSE Navegar3(ss, c, ev, pg)

Mapa3(v, ss, c, ev, df) == Seleccion3(v, ss, c, ev, df, Pagina3(v, ss))

\* a step 3 that draws the map and its buttons whatever the filter gave
Bloque3SinParada(v, ss, c, ev, sub) == Mapa3(v, Clic3(ss, ev), c, ev, sub.df)

Bloque3Con(v, ss, c, ev, sub) ==
    IF sub.fin = "sin localidad" THEN
        IF v = "avm_migra" THEN
            \* the button of line 166 and the one of line 223 carry the same
            \* label: Streamlit refuses the second (DuplicateWidgetID)
            Navegar3(ss, c, ev,
                     Pagina(3, "excepcion", {"Volver a Seleccion de Localidad"},
                            {"error: localidad sin informacion"}, <<>>, FALSE))
        ELSE Fin(ss, c, Pagina(3, "stop", {}, {"error: localidad sin codigo"}, <<>>, FALSE), FALSE)
    ELSE IF sub.fin = "sin manzanas" THEN
        IF v = "avm_migra" THEN
            Navegar3(ss, c, ev,
                     Pagina(3, "ok", NavBloque3, {"warning: localidad sin manzanas"}, <<>>, FALSE))
        ELSE Fin(ss, c, Pagina(3, "stop", {}, {"warning: localidad sin manzanas"}, <<>>, FALSE), FALSE)
    ELSE IF sub.fin = "excepcion" THEN
        Fin(ss, c, Pagina(3, "excepcion", {}, {}, <<>>, FALSE), FALSE)
    ELSE IF v = "avm" THEN
        \* avm.py line 131 reads px, a name the script binds only inside the
        \* blocks of steps 5 to 7: NameError before anything is stored
        Fin(ss, c, Pagina(3, "excepcion", {}, {}, <<>>, FALSE), FALSE)
    ELSE Mapa3(v, Clic3(ss, ev), c, ev, sub.df)

Bloque3(v, ss, c, ev) == Bloque3Con(v, ss, c, ev, Subconjunto(v, ss))

IdsDe(sub) == {sub.df[i].id_manzana_unif : i \in 1..Len(sub.df)}

\* the features of the map of the current step that a click can hit
ObjetosClicables(v, ss) ==
    IF ss.step = 2 /\ v # "avm"
    THEN {ss.localidades[i].nombre_localidad : i \in 1..Len(ss.localidades)}
    ELSE IF ss.step = 3 /\ v # "avm" THEN IdsDe(Subconjunto(v, ss))
    ELSE {}

(***************************************************************************)
(* Images.  A figure saved to a BytesIO is kept as what it shows: its      *)
(* kind, the block it was drawn for and its data.  BytesIO() is the empty  *)
(* buffer.                                                                 *)
(***************************************************************************)
Imagen(fig, manzana, datos) == [fig |-> fig, manzana |-> manzana, datos |-> datos]
BytesIO == Imagen("", None, <<>>)

(***************************************************************************)
(* Block 4: transit and school context of the selected block               *)
(***************************************************************************)
\* manzanas[manzanas["id_manzana_unif"] == id_manzana]
BuscarManzana(df, id_manzana) ==
    Filter(df, LAMBDA row : PdEq(row.id_manzana_unif, id_manzana))

\* the rows of a point collection whose group id equals id
BuscarGrupo(df, id) == Filter(df, LAMBDA row : PdEq(row.id, id))

\* list(geom.geoms): a MultiPoint has members, a Point has no such attribute
TieneGeoms(geom) == geom.geom_type = "MultiPoint"

\* the point set of a block in prueba.py (lines 238-246, 274-282): fin is
\* "excepcion" when .geoms is read from a Point
PuntosPrueba(df, id) ==
    IF isna(id) THEN [fin |-> "ok", puntos |-> <<>>]
    ELSE LET multipunto == BuscarGrupo(df, id) IN
         IF empty(multipunto) THEN [fin |-> "ok", puntos |-> <<>>]
         ELSE IF TieneGeoms(multipunto[1]) THEN [fin |-> "ok", puntos |-> multipunto[1].geoms]
         ELSE [fin |-> "excepcion", puntos |-> <<>>]

\* avm_migra.py lines 254-263: the frame starts as gpd.GeoDataFrame(), which
\* has no geometry column, and to_crs() of that frame raises
PuntosTransporteMigra(df, id) ==
    IF isna(id) THEN [fin |-> "excepcion", puntos |-> <<>>]
    ELSE LET serie == BuscarGrupo(df, id) IN
         IF empty(serie) THEN [fin |-> "excepcion", puntos |-> <<>>]
         ELSE IF TieneGeoms(serie[1]) THEN [fin |-> "ok", puntos |-> serie[1].geoms]
         ELSE [fin |-> "excepcion", puntos |-> <<>>]

RECURSIVE Aplanar(_, _)
Aplanar(df, i) ==
    IF i > Len(df) THEN <<>> ELSE df[i].geoms \o Aplanar(df, i + 1)

\* avm_migra.py lines 285-290: the matching rows are plotted as they are
PuntosColegiosMigra(df, id) ==
    IF isna(id) THEN [fin |-> "excepcion", puntos |-> <<>>]
    ELSE [fin |-> "ok", puntos |-> Aplanar(BuscarGrupo(df, id), 1)]

Contexto(fig, m, radio, puntos) ==
    Imagen(fig, m.id_manzana_unif,
           [buffer |-> BufferMetros(m.geometry, radio), puntos |-> puntos])

NavBloque4 == {"Volver a Seleccion de Manzana", "Volver al Inicio"}

Navegar4(ss, c, ev, pg) ==
    IF Pulsado(ev, "Volver a Seleccion de Manzana") /\ "Volver a Seleccion de Manzana" \in pg.botones
    THEN Fin(Put(ss, "step", 3), c, pg, TRUE)
    ELSE IF Pulsado(ev, "Volver al Inicio") /\ "Volver al Inicio" \in pg.botones
    THEN Fin(Put(ss, "step", 1), c, pg, TRUE)
    ELSE IF Pulsado(ev, "Continuar al Analisis Comparativo")
            /\ "Continuar al Analisis Comparativo" \in pg.botones
    THEN Fin(Put(ss, "step", 5), c, pg, TRUE)
    ELSE Fin(ss, c, pg, FALSE)

\* the two maps of step 4 for the block m and its point sets pt and pc; an
\* exception while drawing the second leaves the first stored
Bloque4Fin(ss, c, ev, m, pt, pc) ==
    LET fig_transporte == Contexto("transporte", m, Radio800, pt.puntos)
        fig_colegios == Contexto("colegios", m, Radio1000, pc.puntos)
    IN  IF pt.fin = "excepcion"
        THEN Fin(ss, c, Pagina(4, "excepcion", {}, {}, <<>>, FALSE), FALSE)
        ELSE IF pc.fin = "excepcion"
        THEN Fin(Put(ss, "buffer_transporte", fig_transporte), c,
                 Pagina(4, "excepcion", {}, {}, <<fig_transporte>>, FALSE), FALSE)
        ELSE Navegar4(Put(Put(ss, "buffer_transporte", fig_transporte),
                          "buffer_colegios", fig_colegios),
                      c, ev,
                      Pagina(4, "ok", NavBloque4 \cup {"Continuar al Analisis Comparativo"},
                             {}, <<fig_transporte, fig_colegios>>, FALSE))

Bloque4Puntos(v, ss, c, ev, m) ==
    IF v = "prueba"
    THEN Bloque4Fin(ss, c, ev, m, PuntosPrueba(ss.transporte, m.id_combi_acceso),
                    PuntosPrueba(ss.colegios, m.id_com_colegios))
    ELSE Bloque4Fin(ss, c, ev, m, PuntosTransporteMigra(ss.transporte, m.id_combi_acceso),
                    PuntosColegiosMigra(ss.colegios, m.id_com_colegios))

Bloque4Con(v, ss, c, ev, manzana_sel) ==
    IF empty(manzana_sel) THEN
        IF v = "avm_migra"
        THEN Navegar4(ss, c, ev,
                      Pagina(4, "ok", NavBloque4, {"warning: manzana sin datos"}, <<>>, FALSE))
        \* prueba.py lines 210 and 293 (avm.py 204 and 291) give two buttons
        \* the same label: Streamlit refuses the second (DuplicateWidgetID)
        ELSE Navegar4(ss, c, ev,
                      Pagina(4, "excepcion", {"Volver a Seleccion de Manzana"},
                             {"warning: manzana sin datos"}, <<>>, FALSE))
    ELSE IF v = "avm" THEN
        \* avm.py line 230 reads go, which this execution never imported
        Fin(ss, c, Pagina(4, "excepcion", {}, {}, <<>>, FALSE), FALSE)
    ELSE Bloque4Puntos(v, ss, c, ev, manzana_sel[1])

Bloque4(v, ss, c, ev) ==
    Bloque4Con(v, ss, c, ev, BuscarManzana(ss.manzanas, ss.manzana_sel))

(***************************************************************************)
(* Block 5: comparative values, land-use distribution, projection          *)
(***************************************************************************)
RECURSIVE SumValor(_, _)
SumValor(df, i) == IF i > Len(df) THEN 0 ELSE df[i].valor_m2 + SumValor(df, i + 1)

\* df["valor_m2"].mean(): missing values are skipped; the mean of no value
\* at all is NaN
mean(df) ==
    LET vals == Filter(df, LAMBDA row : notnan(row.valor_m2)) IN
    IF empty(vals) THEN NaN ELSE SumValor(vals, 1) \div Len(vals)

\* df["valor_m2"].mean() if not df.empty else 0
promedio(df) == IF ~empty(df) THEN mean(df) ELSE 0

\* the blocks that share the area of the selected block.  avm.py matches a
\* missing area id with the missing ones; prueba.py and avm_migra.py compare
\* with ==, which a missing id never satisfies
manzanas_area(v, df, id_area_manzana) ==
    IF v = "avm" /\ isna(id_area_manzana)
    THEN Filter(df, LAMBDA row : isna(row.id_area))
    ELSE Filter(df, LAMBDA row : PdEq(row.id_area, id_area_manzana))

\* the rows that meet the buffer around g without meeting g itself
manzanas_buffer_ajenas(df, g, radio) ==
    Filter(df, LAMBDA row : intersects(row.geometry, BufferMetros(g, radio))
                              /\ ~intersects(row.geometry, g))

\* df[df.geometry.intersects(buffer)] for the buffer of radio metres around g
manzanas_buffer(df, g, radio) ==
    Filter(df, LAMBDA row : intersects(row.geometry, BufferMetros(g, radio)))

RECURSIVE Distintos(_, _, _)
Distintos(df, i, vistos) ==
    IF i > Len(df) THEN <<>>
    ELSE LET u == df[i].uso_pot_simplificado IN
         IF isna(u) \/ u \in vistos THEN Distintos(df, i + 1, vistos)
         ELSE <<u>> \o Distintos(df, i + 1, vistos \cup {u})

Cantidad(df, u) == Cardinality({i \in 1..Len(df) : df[i].uso_pot_simplificado = u})

\* the first position of the smallest count
PosMin(t) ==
    CHOOSE i \in 1..Len(t) :
        /\ \A j \in 1..Len(t) : t[i].cantidad <= t[j].cantidad
        /\ \A j \in 1..(i - 1) : t[i].cantidad < t[j].cantidad

\* the first position of the largest count
PosMax(t) ==
    CHOOSE i \in 1..Len(t) :
        /\ \A j \in 1..Len(t) : t[j].cantidad <= t[i].cantidad
        /\ \A j \in 1..(i - 1) : t[j].cantidad < t[i].cantidad

Quitar(t, i) == [j \in 1..(Len(t) - 1) |-> IF j < i THEN t[j] ELSE t[j + 1]]

RECURSIVE OrdenarDesc(_)
OrdenarDesc(t) ==
    IF Len(t) = 0 THEN <<>>
    ELSE <<t[PosMax(t)]>> \o OrdenarDesc(Quitar(t, PosMax(t)))

\* the last position of the largest count
PosMaxUltimo(t) ==
    CHOOSE i \in 1..Len(t) :
        /\ \A j \in 1..Len(t) : t[j].cantidad <= t[i].cantidad
        /\ \A j \in (i + 1)..Len(t) : t[j].cantidad < t[i].cantidad

RECURSIVE OrdenarDescInversa(_)
OrdenarDescInversa(t) ==
    IF Len(t) = 0 THEN <<>>
    ELSE <<t[PosMaxUltimo(t)]>> \o OrdenarDescInversa(Quitar(t, PosMaxUltimo(t)))

\* result.sort_values(ascending=False) with the default kind: by count
\* descending; the order of equal counts is that of the installed sort,
\* first appearance when it is stable and any other when it is not (the
\* model keeps the reverse of the order of appearance)
OrdenarConteo(t) ==
    IF orden_empates = "aparicion" THEN OrdenarDesc(t) ELSE OrdenarDescInversa(t)

\* df["uso_pot_simplificado"].value_counts(): one row per category present,
\* missing categories dropped, counted in the order of first appearance and
\* then sorted by count descending
value_counts(df) ==
    LET usos == Distintos(df, 1, {}) IN
    OrdenarConteo([i \in 1..Len(usos) |-> [uso |-> usos[i], cantidad |-> Cantidad(df, usos[i])]])

fechas == <<"2024-S2", "2025-S1", "2025-S2", "2026-S1", "2026-S2">>

\* manzana_sel[proyeccion_cols].iloc[0]
serie_proyeccion(m) ==
    <<m.valor_m2, m.valor_2025_s1, m.valor_2025_s2, m.valor_2026_s1, m.valor_2026_s2>>

\* a completeness test that looks at the current value only
ProyeccionCompleta_actual(serie) == ~isnan(serie[1])

\* not serie_proyeccion.isnull().any()
ProyeccionCompleta(serie) == ~(\E i \in 1..Len(serie) : isnan(serie[i]))

\* the line chart: each period with its value
fig_line(m) ==
    Imagen("proyeccion", m.id_manzana_unif,
           [i \in 1..Len(fechas) |-> <<fechas[i], serie_proyeccion(m)[i]>>])

\* the index labels of the rows of df that hold id: a merged frame is
\* labelled 0, 1, 2, ... in row order
Etiquetas(df, id) == {i - 1 : i \in {j \in 1..Len(df) : PdEq(df[j].id_manzana_unif, id)}}

\* serie[0] on a series labelled by integers reads the label 0 (KeyError when
\* no row carries it); .iloc[0] reads the first row
TieneEtiqueta0(v, df, id) == v = "avm_migra" => 0 \in Etiquetas(df, id)

\* what step 5 shows for a block: its value, its peers and their means
Resumen(m, area, b300, b500) ==
    [valor_manzana |-> m.valor_m2,
     manzanas_area |-> area, promedio_area |-> promedio(area),
     manzanas_buffer |-> b300, promedio_buffer |-> promedio(b300),
     manzanas_buffer_uso |-> b500, conteo_uso |-> value_counts(b500)]

\* everything step 5 computes for a block found in the subset
Comparativo(v, df, m) ==
    Resumen(m, manzanas_area(v, df, m.id_area),
            manzanas_buffer(df, m.geometry, Radio300),
            manzanas_buffer(df, m.geometry, Radio500))

SinDatosUso == <<[uso |-> "N/A", cantidad |-> 0]>>

\* conteo_uso.index[0] if not conteo_uso.empty else "Sin clasificacion"
uso_pot_mayoritario(conteo) == IF ~empty(conteo) THEN conteo[1].uso ELSE SinClasificacion

\* localidades.loc[localidades["num_localidad"] == cod, "nombre_localidad"]
nombre_loc_series(localidades, cod) ==
    Filter(localidades, LAMBDA row : row.num_localidad = cod)

ficha_estilizada(m, nombre, k, conteo) ==
    [id_manzana |-> m.id_manzana_unif, localidad |-> nombre, estrato |-> m.estrato,
     valor_m2 |-> k.valor_manzana, prom_area |-> k.promedio_area,
     prom_300 |-> k.promedio_buffer, uso_mayoritario |-> conteo[1].uso]

\* a navigation whose forward button skips step 6
Navegar5Salto(ss, c, ev, pg) ==
    IF Pulsado(ev, "Volver al Analisis de Transporte y Educacion")
        /\ "Volver al Analisis de Transporte y Educacion" \in pg.botones
    THEN Fin(Put(ss, "step", 4), c, pg, TRUE)
    ELSE IF Pulsado(ev, "Volver al Analisis Espacial")
        /\ "Volver al Analisis Espacial" \in pg.botones
    THEN Fin(Put(ss, "step", 4), c, pg, TRUE)
    ELSE IF Pulsado(ev, "Continuar al Analisis de Seguridad")
        /\ "Continuar al Analisis de Seguridad" \in pg.botones
    THEN Fin(Put(ss, "step", 7), c, pg, TRUE)
    ELSE IF Pulsado(ev, "Volver") /\ "Volver" \in pg.botones
    THEN Fin(Put(ss, "step", 3), c, pg, TRUE)
    ELSE Fin(ss, c, pg, FALSE)

Navegar5(ss, c, ev, pg) ==
    IF Pulsado(ev, "Volver al Analisis de Transporte y Educacion")
        /\ "Volver al Analisis de Transporte y Educacion" \in pg.botones
    THEN Fin(Put(ss, "step", 4), c, pg, TRUE)
    ELSE IF Pulsado(ev, "Volver al Analisis Espacial")
        /\ "Volver al Analisis Espacial" \in pg.botones
    THEN Fin(Put(ss, "step", 4), c, pg, TRUE)
    ELSE IF Pulsado(ev, "Continuar al Analisis de Seguridad")
        /\ "Continuar al Analisis de Seguridad" \in pg.botones
    THEN Fin(Put(ss, "step", 6), c, pg, TRUE)
    ELSE IF Pulsado(ev, "Volver") /\ "Volver" \in pg.botones
    THEN Fin(Put(ss, "step", 3), c, pg, TRUE)
    ELSE Fin(ss, c, pg, FALSE)

\* prueba.py lines 325-366: the results of step 5 are stored and drawn
Bloque5PruebaFin(ss, c, ev, m, k) ==
    LET fig_bar == Imagen("valorm2", m.id_manzana_unif,
                          <<k.valor_manzana, k.promedio_area, k.promedio_buffer>>)
        fig_pie == Imagen("dist_pot", m.id_manzana_unif, k.conteo_uso)
        completa == ProyeccionCompleta(serie_proyeccion(m))
    IN  Navegar5(Put(Put(Put(Put(Put(Put(ss, "promedio_area", k.promedio_area),
                                     "promedio_buffer", k.promedio_buffer),
                                 "buffer_valorm2", fig_bar),
                             "uso_pot_mayoritario", uso_pot_mayoritario(k.conteo_uso)),
                         "buffer_dist_pot", IF ~empty(k.conteo_uso) THEN fig_pie ELSE BytesIO),
                     "buffer_proyeccion", IF completa THEN fig_line(m) ELSE BytesIO),
                 c, ev,
                 Pagina(5, "ok",
                        {"Volver al Analisis de Transporte y Educacion",
                         "Continuar al Analisis de Seguridad"},
                        (IF empty(k.conteo_uso) THEN {"warning: sin datos de uso POT"} ELSE {})
                          \cup (IF completa THEN {} ELSE {"warning: proyeccion incompleta"}),
                        <<fig_bar>>
                          \o (IF ~empty(k.conteo_uso) THEN <<fig_pie>> ELSE <<>>)
                          \o (IF completa THEN <<fig_line(m)>> ELSE <<>>),
                        FALSE))

\* a step 5 that reads the first row of the lookup without testing it
Bloque5PruebaSinGuardia(ss, c, ev, manzana_sel) ==
    IF empty(manzana_sel)
    THEN Fin(ss, c, Pagina(5, "excepcion", {}, {}, <<>>, FALSE), FALSE)
    ELSE Bloque5PruebaFin(ss, c, ev, manzana_sel[1],
                          Comparativo("prueba", ss.manzanas_localidad_sel, manzana_sel[1]))

Bloque5PruebaCon(ss, c, ev, manzana_sel) ==
    IF empty(manzana_sel) THEN
        Navegar5(ss, c, ev,
                 Pagina(5, "ok", {"Volver al Analisis de Transporte y Educacion"},
                        {"error: no se encontro la manzana seleccionada"}, <<>>, FALSE))
    ELSE Bloque5PruebaFin(ss, c, ev, manzana_sel[1],
                          Comparativo("prueba", ss.manzanas_localidad_sel, manzana_sel[1]))

Bloque5Prueba(ss, c, ev) ==
    Bloque5PruebaCon(ss, c, ev, BuscarManzana(ss.manzanas_localidad_sel, ss.manzana_sel))

\* avm_migra.py lines 345-423: the pie and the line chart are stored only
\* when they are drawn; what an earlier execution stored stays otherwise
Bloque5MigraFin(ss, c, ev, m, nombre_localidad, k) ==
    LET fig_bar == Imagen("valorm2", m.id_manzana_unif,
                          <<k.valor_manzana, k.promedio_area, k.promedio_buffer>>)
        fig_pie == Imagen("dist_pot", m.id_manzana_unif, k.conteo_uso)
        conteo == IF ~empty(k.conteo_uso) THEN k.conteo_uso ELSE SinDatosUso
        completa == ProyeccionCompleta(serie_proyeccion(m))
        ss1 == Put(ss, "buffer_valorm2", fig_bar)
        ss2 == IF ~empty(k.conteo_uso) THEN Put(ss1, "buffer_dist_pot", fig_pie) ELSE ss1
        ss3 == IF completa THEN Put(ss2, "buffer_proyeccion", fig_line(m)) ELSE ss2
    IN  Navegar5(Put(Put(ss3, "nombre_localidad", nombre_localidad),
                     "ficha_estilizada", ficha_estilizada(m, nombre_localidad, k, conteo)),
                 c, ev,
                 Pagina(5, "ok",
                        {"Volver al Analisis Espacial", "Continuar al Analisis de Seguridad"},
                        (IF empty(k.conteo_uso) THEN {"warning: sin datos de uso POT"} ELSE {})
                          \cup (IF completa THEN {} ELSE {"warning: proyeccion incompleta"}),
                        <<fig_bar>>
                          \o (IF ~empty(k.conteo_uso) THEN <<fig_pie>> ELSE <<>>)
                          \o (IF completa THEN <<fig_line(m)>> ELSE <<>>),
                        FALSE))

\* lines 335 and 347, 374: .iloc[0] of an empty series, [0] without label 0
Bloque5MigraNombre(ss, c, ev, m, serie) ==
    IF empty(serie) \/ ~TieneEtiqueta0("avm_migra", ss.manzanas_localidad_sel, ss.manzana_sel)
    THEN Fin(ss, c, Pagina(5, "excepcion", {}, {}, <<>>, FALSE), FALSE)
    ELSE Bloque5MigraFin(ss, c, ev, m, serie[1].nombre_localidad,
                         Comparativo("avm_migra", ss.manzanas_localidad_sel, m))

\* a step 5 that offers the way forward also when the block was not found
Bloque5MigraSinBloqueo(ss, c, ev, manzana_sel) ==
    IF empty(manzana_sel) THEN
        Navegar5(ss, c, ev,
                 Pagina(5, "ok", {"Volver", "Continuar al Analisis de Seguridad"},
                        {"error: no se pudo recuperar la manzana seleccionada"}, <<>>, FALSE))
    ELSE Bloque5MigraNombre(ss, c, ev, manzana_sel[1],
                            nombre_loc_series(ss.localidades, manzana_sel[1].num_localidad))

Bloque5MigraCon(ss, c, ev, manzana_sel) ==
    IF empty(manzana_sel) THEN
        Navegar5(ss, c, ev,
                 Pagina(5, "ok", {"Volver"},
                        {"error: no se pudo recuperar la manzana seleccionada"}, <<>>, FALSE))
    ELSE Bloque5MigraNombre(ss, c, ev, manzana_sel[1],
                            nombre_loc_series(ss.localidades, manzana_sel[1].num_localidad))

Bloque5Migra(ss, c, ev) ==
    Bloque5MigraCon(ss, c, ev, BuscarManzana(ss.manzanas_localidad_sel, ss.manzana_sel))

Bloque5(v, ss, c, ev) ==
    IF v = "prueba" THEN Bloque5Prueba(ss, c, ev)
    ELSE IF v = "avm_migra" THEN Bloque5Migra(ss, c, ev)
    \* avm.py line 321 reads manzanas_localidad_sel, which its step 3 never
    \* gets to store: AttributeError
    ELSE Fin(ss, c, Pagina(5, "excepcion", {}, {}, <<>>, FALSE), FALSE)

(***************************************************************************)
(* Block 6: security context of the district                               *)
(***************************************************************************)
\* the first position whose crime count comes first in the order asked for
PosPrimero(t, ascending) ==
    CHOOSE i \in 1..Len(t) :
        /\ \A j \in 1..Len(t) :
              IF ascending THEN t[i].cantidad_delitos <= t[j].cantidad_delitos
              ELSE t[j].cantidad_delitos <= t[i].cantidad_delitos
        /\ \A j \in 1..(i - 1) : t[j].cantidad_delitos # t[i].cantidad_delitos

\* a table left in the order of the collection
sort_values_omitido(t, ascending) == t

RECURSIVE sort_values(_, _)
\* df.sort_values("cantidad_delitos", ascending=...)
sort_values(t, ascending) ==
    IF Len(t) = 0 THEN <<>>
    ELSE <<t[PosPrimero(t, ascending)]>>
            \o sort_values(Quitar(t, PosPrimero(t, ascending)), ascending)

\* the three columns of the chart, each bar with its colour flag
Barras(t, nombre_loc_actual) ==
    [i \in 1..Len(t) |->
        [nombre_localidad |-> t[i].nombre_localidad,
         cantidad_delitos |-> t[i].cantidad_delitos,
         nivel_riesgo_delictivo |-> t[i].nivel_riesgo_delictivo,
         es_localidad_actual |-> t[i].nombre_localidad = nombre_loc_actual,
         etiqueta |-> ""]]

\* prueba.py line 399, avm_migra.py line 448: by crime count descending; the
\* bar of every row named like the current district is coloured
df_seguridad(localidades, nombre_loc_actual) ==
    Barras(sort_values(localidades, FALSE), nombre_loc_actual)

\* the first position of a row of that name, 0 when there is none
PrimeraPos(t, nombre) ==
    IF \E i \in 1..Len(t) : t[i].nombre_localidad = nombre
    THEN CHOOSE i \in 1..Len(t) :
            /\ t[i].nombre_localidad = nombre
            /\ \A j \in 1..(i - 1) : t[j].nombre_localidad # nombre
    ELSE 0

EtiquetarEn(t, y_pos) ==
    IF y_pos = 0 THEN t ELSE [t EXCEPT ![y_pos].etiqueta = t[y_pos].nivel_riesgo_delictivo]

\* avm_migra.py lines 457-462: the risk level of the first row of that name
\* is written beside the first row of that name
Etiquetar(t, nombre_loc_actual) == EtiquetarEn(t, PrimeraPos(t, nombre_loc_actual))

NavBloque6 == {"Volver al Analisis Comparativo", "Reiniciar App"}

\* "Reiniciar App": prueba.py deletes every key; avm_migra.py every key but
\* step, and then sets step to 1
\* a restart that only sets the step and keeps every other key
Navegar6SinBorrar(v, ss, c, ev, pg) ==
    IF (Pulsado(ev, "Volver al Analisis Comparativo") /\ "Volver al Analisis Comparativo" \in pg.botones)
        \/ (Pulsado(ev, "Volver al Bloque Anterior") /\ "Volver al Bloque Anterior" \in pg.botones)
    THEN Fin(Put(ss, "step", 5), c, pg, TRUE)
    ELSE IF Pulsado(ev, "Finalizar y Generar Informe") /\ "Finalizar y Generar Informe" \in pg.botones
    THEN Fin(Put(ss, "step", 7), c, pg, TRUE)
    ELSE IF Pulsado(ev, "Reiniciar App") /\ "Reiniciar App" \in pg.botones
    THEN Fin(Put(ss, "step", 1), c, pg, TRUE)
    ELSE Fin(ss, c, pg, FALSE)

Navegar6(v, ss, c, ev, pg) ==
    IF (Pulsado(ev, "Volver al Analisis Comparativo") /\ "Volver al Analisis Comparativo" \in pg.botones)
        \/ (Pulsado(ev, "Volver al Bloque Anterior") /\ "Volver al Bloque Anterior" \in pg.botones)
    THEN Fin(Put(ss, "step", 5), c, pg, TRUE)
    ELSE IF Pulsado(ev, "Finalizar y Generar Informe") /\ "Finalizar y Generar Informe" \in pg.botones
    THEN Fin(Put(ss, "step", 7), c, pg, TRUE)
    ELSE IF Pulsado(ev, "Reiniciar App") /\ "Reiniciar App" \in pg.botones
    THEN IF v = "prueba" THEN Fin(DelAll(ss, {}), c, pg, TRUE)
         ELSE Fin(Put(DelAll(ss, {"step"}), "step", 1), c, pg, TRUE)
    ELSE Fin(ss, c, pg, FALSE)

Bloque6Fin(v, ss, c, ev, fig_seg) ==
    Navegar6(v, Put(ss, "buffer_seguridad", fig_seg), c, ev,
             Pagina(6, "ok", NavBloque6 \cup {"Finalizar y Generar Informe"},
                    {}, <<fig_seg>>, FALSE))

\* prueba.py lines 392-402
Bloque6PruebaNombre(ss, c, ev, serie) ==
    IF empty(serie) THEN
        Fin(ss, c, Pagina(6, "stop", {}, {"error: localidad no encontrada"}, <<>>, FALSE), FALSE)
    ELSE Bloque6Fin("prueba", Put(ss, "nombre_localidad", serie[1].nombre_localidad), c, ev,
                    Imagen("seguridad", ss.manzana_sel,
                           df_seguridad(ss.localidades, serie[1].nombre_localidad)))

Bloque6PruebaCon(ss, c, ev, manzana_sel) ==
    IF empty(manzana_sel) THEN
        Navegar6("prueba", ss, c, ev,
                 Pagina(6, "ok", {"Volver al Bloque Anterior"} \cup NavBloque6,
                        {"warning: manzana sin informacion"}, <<>>, FALSE))
    ELSE Bloque6PruebaNombre(ss, c, ev,
                             nombre_loc_series(ss.localidades, manzana_sel[1].num_localidad))

Bloque6Prueba(ss, c, ev) ==
    Bloque6PruebaCon(ss, c, ev, BuscarManzana(ss.manzanas_localidad_sel, ss.manzana_sel))

\* avm_migra.py lines 445-476: .iloc[0] of the subset (IndexError when it is
\* empty), the name step 5 stored (AttributeError when it is absent)
Bloque6Migra(ss, c, ev) ==
    IF ~Has(ss, "nombre_localidad") \/ empty(ss.manzanas_localidad_sel)
    THEN Fin(ss, c, Pagina(6, "excepcion", {}, {}, <<>>, FALSE), FALSE)
    ELSE Bloque6Fin("avm_migra", ss, c, ev,
                    Imagen("seguridad", ss.manzana_sel,
                           Etiquetar(df_seguridad(ss.localidades, ss.nombre_localidad),
                                     ss.nombre_localidad)))

Bloque6(v, ss, c, ev) ==
    IF v = "prueba" THEN Bloque6Prueba(ss, c, ev)
    ELSE IF v = "avm_migra" THEN Bloque6Migra(ss, c, ev)
    \* avm.py line 459 reads manzanas_localidad_sel, never stored: AttributeError
    ELSE Fin(ss, c, Pagina(6, "excepcion", {}, {}, <<>>, FALSE), FALSE)

(***************************************************************************)
(* Block 7: the HTML report                                                *)
(***************************************************************************)
\* the base64 text of a buffer, "" (here <<>>) for one without content
buffer_a_base64(buf) == IF buf = BytesIO THEN <<>> ELSE <<buf>>

\* a card with title and image, nothing for an empty image
create_card(title, img_base64) ==
    IF img_base64 # <<>> THEN <<[titulo |-> title, img |-> img_base64[1]]>> ELSE <<>>

RequiredPrueba ==
    {"buffer_colegios", "buffer_transporte", "buffer_valorm2", "buffer_seguridad",
     "buffer_dist_pot", "buffer_proyeccion"}

RequiredMigra == {"buffer_colegios", "buffer_transporte", "buffer_valorm2", "buffer_seguridad"}

\* "Reiniciar Aplicacion": every key is deleted; avm_migra.py executes the
\* script again, prueba.py sets step to 1 and lets the execution end
Navegar7(v, ss, c, ev, pg) ==
    IF Pulsado(ev, "Volver al Analisis de Seguridad") /\ "Volver al Analisis de Seguridad" \in pg.botones
    THEN Fin(Put(ss, "step", 6), c, pg, TRUE)
    ELSE IF Pulsado(ev, "Reiniciar Aplicacion") /\ "Reiniciar Aplicacion" \in pg.botones
    THEN IF v = "prueba" THEN Fin(Put(DelAll(ss, {}), "step", 1), c, pg, FALSE)
         ELSE Fin(DelAll(ss, {}), c, pg, TRUE)
    ELSE IF Pulsado(ev, "Reiniciar") /\ "Reiniciar" \in pg.botones
    THEN Fin(Put(ss, "step", 1), c, pg, TRUE)
    ELSE IF Pulsado(ev, "Volver al Analisis Comparativo") /\ "Volver al Analisis Comparativo" \in pg.botones
    THEN Fin(Put(ss, "step", 5), c, pg, TRUE)
    ELSE Fin(ss, c, pg, FALSE)

NavBloque7 == {"Volver al Analisis de Seguridad", "Reiniciar Aplicacion"}

Bloque7Prueba(ss, c, ev) ==
    IF ~(RequiredPrueba \subseteq DOMAIN ss) THEN
        Navegar7("prueba", ss, c, ev,
                 Pagina(7, "ok", {"Reiniciar"} \cup NavBloque7,
                        {"error: faltan datos para generar el informe"}, <<>>, FALSE))
    ELSE IF empty(BuscarManzana(ss.manzanas_localidad_sel, ss.manzana_sel)) THEN
        \* line 573 reads html_content, which this branch never binds: NameError
        Navegar7("prueba", ss, c, ev,
                 Pagina(7, "excepcion", {"Volver al Analisis Comparativo"},
                        {"error: manzana sin informacion"}, <<>>, FALSE))
    \* line 484 reads id_manzana, a name this block never binds: NameError
    ELSE Fin(ss, c, Pagina(7, "excepcion", {}, {}, <<>>, FALSE), FALSE)

\* the report of avm_migra.py: the block id, the summary table and one card
\* for every image that has content
html_content(ss) ==
    [manzana |-> ss.manzana_sel,
     ficha |-> ss.ficha_estilizada,
     tarjetas |->
        create_card("Proyeccion de Valor", buffer_a_base64(ss.buffer_proyeccion))
        \o create_card("Comparativo de Valor m2", buffer_a_base64(ss.buffer_valorm2))
        \o create_card("Contexto de Transporte (800m)", buffer_a_base64(ss.buffer_transporte))
        \o create_card("Contexto Educativo (1000m)", buffer_a_base64(ss.buffer_colegios))
        \o create_card("Distribucion Usos POT (500m)", buffer_a_base64(ss.buffer_dist_pot))
        \o create_card("Contexto de Seguridad Localidad", buffer_a_base64(ss.buffer_seguridad))]

\* lines 501-504: the two optional images get an empty buffer when absent
Opcionales(ss) ==
    [k \in {"buffer_dist_pot", "buffer_proyeccion"} \ DOMAIN ss |-> BytesIO] @@ ss

Bloque7MigraCon(ss, c, ev) ==
    IF ~(RequiredMigra \subseteq DOMAIN ss) THEN
        Navegar7("avm_migra", ss, c, ev,
                 Pagina(7, "ok", {"Reiniciar"} \cup NavBloque7,
                        {"error: faltan datos para generar el informe"}, <<>>, FALSE))
    ELSE IF ~Has(ss, "ficha_estilizada") THEN
        Fin(ss, c, Pagina(7, "excepcion", {}, {}, <<>>, FALSE), FALSE)
    ELSE
        Navegar7("avm_migra", Put(ss, "informe_html", html_content(ss)), c, ev,
                 Pagina(7, "ok", NavBloque7, {"success: informe generado"}, <<>>, TRUE))

Bloque7Migra(ss, c, ev) == Bloque7MigraCon(Opcionales(ss), c, ev)

Bloque7(v, ss, c, ev) ==
    IF v = "prueba" THEN Bloque7Prueba(ss, c, ev)
    ELSE IF v = "avm_migra" THEN Bloque7Migra(ss, c, ev)
    \* avm.py line 541 reads manzanas_localidad_sel, never stored: AttributeError
    ELSE Fin(ss, c, Pagina(7, "excepcion", {}, {}, <<>>, FALSE), FALSE)

(***************************************************************************)
(* One execution of the script, and one user interaction                   *)
(***************************************************************************)
\* if "step" not in st.session_state: st.session_state.step = 1
ControlDeFlujo(ss) == IF Has(ss, "step") THEN ss ELSE Put(ss, "step", 1)

\* the if/elif chain over st.session_state.step
Despachar(v, ss, c, d, ev) ==
    CASE ss.step = 1 -> Bloque1(v, ss, c, d, ev)
      [] ss.step = 2 -> Bloque2(v, ss, c, ev)
      [] ss.step = 3 -> Bloque3(v, ss, c, ev)
      [] ss.step = 4 -> Bloque4(v, ss, c, ev)
      [] ss.step = 5 -> Bloque5(v, ss, c, ev)
      [] ss.step = 6 -> Bloque6(v, ss, c, ev)
      [] ss.step = 7 -> Bloque7(v, ss, c, ev)

RECURSIVE Ejecutar(_, _, _, _, _)

\* st.rerun(): the script is executed again at once, without an interaction
Rerun(v, d, r) == IF r.rerun THEN Ejecutar(v, r.ss, r.cache, d, SinEvento) ELSE r

\* the script executed for one interaction, and again while it ends in st.rerun()
Ejecutar(v, ss, c, d, ev) == Rerun(v, d, Despachar(v, ControlDeFlujo(ss), c, d, ev))

Aplicar(ev) ==
    \E r \in {Ejecutar(variante, session_state, cache, datasets, ev)} :
        /\ session_state' = r.ss
        /\ cache' = r.cache
        /\ pagina' = r.pg
        /\ UNCHANGED <<variante, datasets, orden_empates>>

\* the sessions explored are those in which the user goes back or restarts
\* at most MaxRetrocesos times
MaxRetrocesos == 2

(***************************************************************************)
(* Initial state: a new session has run the script once                    *)
(***************************************************************************)
Init ==
    /\ variante \in Variantes
    /\ \E p \in Params : datasets = Datos(p) /\ orden_empates = p.empates
    /\ \E carga \in BOOLEAN :
         \E r \in {Ejecutar(variante, <<>>, "vacia", datasets, Evento("", None, carga))} :
             /\ session_state = r.ss
             /\ cache = r.cache
             /\ pagina = r.pg
    /\ retrocesos = 0

(***************************************************************************)
(* User interactions                                                       *)
(***************************************************************************)
Avanzar ==
    {"Iniciar Analisis", "Confirmar seleccion", "Confirmar y Continuar",
     "Confirmar Manzana y Continuar", "Continuar al Analisis Comparativo",
     "Continuar al Analisis de Seguridad", "Finalizar y Generar Informe"}

Reinicios == {"Reiniciar App", "Reiniciar Aplicacion", "Reiniciar"}

\* a forward button of the page is pressed; the download behind "Iniciar
\* Analisis" succeeds or fails
PulsarAvanzar ==
    \E b \in pagina.botones \cap Avanzar : \E carga \in BOOLEAN :
        Aplicar(Evento("boton", b, carga)) /\ UNCHANGED retrocesos

\* a backward button of the page is pressed
PulsarVolver ==
    /\ retrocesos < MaxRetrocesos
    /\ retrocesos' = retrocesos + 1
    /\ \E b \in pagina.botones \ (Avanzar \cup Reinicios) : Aplicar(Evento("boton", b, TRUE))

\* a restart button of the page is pressed
PulsarReiniciar ==
    /\ retrocesos < MaxRetrocesos
    /\ retrocesos' = retrocesos + 1
    /\ \E b \in pagina.botones \cap Reinicios : Aplicar(Evento("boton", b, TRUE))

\* a feature of the map of step 2 or 3 is clicked; its properties may lack
\* the key the script reads, which then gets None
ClicObjeto ==
    /\ pagina.fin = "ok"
    /\ pagina.bloque = session_state.step
    /\ \E o \in ObjetosClicables(variante, session_state) \cup {None} :
         /\ ObjetosClicables(variante, session_state) # {}
         /\ Aplicar(Evento("objeto", o, TRUE))
    /\ UNCHANGED retrocesos

PuntosClic == {10, 20, 25, 35, 45}

\* avm.py, step 2: a point of the map is clicked
ClicPunto ==
    /\ variante = "avm"
    /\ pagina.bloque = 2
    /\ session_state.step = 2
    /\ \E x \in PuntosClic : Aplicar(Evento("punto", x, TRUE))
    /\ UNCHANGED retrocesos

Next == PulsarAvanzar \/ PulsarVolver \/ PulsarReiniciar \/ ClicObjeto \/ ClicPunto

Spec == Init /\ [][Next]_vars

(***************************************************************************)
(* Properties.  What they expect of step 5 is computed here from the       *)
(* stored subset, by distance and by field, without the operators above.   *)
(***************************************************************************)
\* the last execution ran step 5 to its end for a block found in the subset
Paso5Hecho == pagina.bloque = 5 /\ pagina.fin = "ok" /\ pagina.graficos # <<>>

Subset == session_state.manzanas_localidad_sel

SelPresente ==
    /\ Has(session_state, "manzana_sel") /\ Has(session_state, "manzanas_localidad_sel")
    /\ \E i \in 1..Len(Subset) : Subset[i].id_manzana_unif = session_state.manzana_sel

\* the row of the selected block
Sel ==
    Subset[CHOOSE i \in 1..Len(Subset) : Subset[i].id_manzana_unif = session_state.manzana_sel]

\* the images of one kind on the page
GraficosDe(fig) ==
    {pagina.graficos[i] : i \in {j \in 1..Len(pagina.graficos) : pagina.graficos[j].fig = fig}}

\* own value, area-peer value, neighbour value as the bar chart shows them
Barra(n) == pagina.graficos[1].datos[n]

RECURSIVE SumaValores(_, _)
SumaValores(df, I) ==
    IF I = {} THEN 0
    ELSE LET i == CHOOSE j \in I : TRUE IN df[i].valor_m2 + SumaValores(df, I \ {i})

ConValor(df, I) == {i \in I : df[i].valor_m2 # NaN}

\* the mean of the values present among the rows I
MediaSobre(df, I) == SumaValores(df, ConValor(df, I)) \div Cardinality(ConValor(df, I))

\* metres between two intervals, 0 when they meet
Distancia(g, h) ==
    IF g.hi < h.lo THEN (h.lo - g.hi) * MetrosPorUnidad
    ELSE IF h.hi < g.lo THEN (g.lo - h.hi) * MetrosPorUnidad
    ELSE 0

EnRadio(df, m, r) == {i \in 1..Len(df) : Distancia(df[i].geometry, m.geometry) <= r}

\* null matches null
ParesDeArea(df, m) ==
    {i \in 1..Len(df) :
        IF m.id_area = None THEN df[i].id_area = None ELSE df[i].id_area = m.id_area}

CincoCampos(m) ==
    <<m.valor_m2, m.valor_2025_s1, m.valor_2025_s2, m.valor_2026_s1, m.valor_2026_s2>>

Incompleta(m) == \E i \in 1..5 : CincoCampos(m)[i] = NaN

\* C1: at step 5 the area-peer value is the mean of the values present among
\* the subset blocks of the selected block's area, a null area matching the
\* null areas, and 0 for an empty peer set; the own value is the block's value
C1_AreaPeerValue ==
    Paso5Hecho =>
        /\ Barra(1) = Sel.valor_m2
        /\ ParesDeArea(Subset, Sel) = {} => Barra(2) = 0
        /\ ConValor(Subset, ParesDeArea(Subset, Sel)) # {}
              => Barra(2) = MediaSobre(Subset, ParesDeArea(Subset, Sel))

\* C2: at step 5 the neighbour value is the mean over exactly the subset
\* blocks within 300 m of the selected block, a block at exactly 300 m
\* included, a block farther away never
C2_NeighborValue ==
    Paso5Hecho =>
        (ConValor(Subset, EnRadio(Subset, Sel, 300)) # {} =>
            /\ Barra(3) = MediaSobre(Subset, EnRadio(Subset, Sel, 300))
            /\ variante = "prueba" =>
                  session_state.promedio_buffer = MediaSobre(Subset, EnRadio(Subset, Sel, 300)))

\* M1 selected, M2 exactly 300 m away and counted, M3 400 m away and not
C2_Witness ==
    /\ Paso5Hecho
    /\ Sel.id_manzana_unif = "M1"
    /\ \E i \in 1..Len(Subset) : Distancia(Subset[i].geometry, Sel.geometry) = 300
    /\ \E i \in 1..Len(Subset) : Distancia(Subset[i].geometry, Sel.geometry) > 300
    /\ Barra(3) = 150

\* C3: step 5 never produces a null mean: neither bar of the chart nor a
\* stored mean is NaN
C3_NoNullMean ==
    Paso5Hecho =>
        /\ Barra(2) # NaN
        /\ Barra(3) # NaN
        /\ variante = "prueba" =>
              session_state.promedio_area # NaN /\ session_state.promedio_buffer # NaN

\* C4: step 5 draws the projection chart exactly when the five fields of the
\* selected block are present, and then with the five values in order under
\* the labels 2024-S2 .. 2026-S2; otherwise it warns and draws none
C4_ProjectionAllOrNothing ==
    Paso5Hecho =>
        IF Incompleta(Sel)
        THEN /\ GraficosDe("proyeccion") = {}
             /\ "warning: proyeccion incompleta" \in pagina.mensajes
             /\ variante = "prueba" => session_state.buffer_proyeccion = BytesIO
        ELSE /\ GraficosDe("proyeccion") =
                  {[fig |-> "proyeccion", manzana |-> Sel.id_manzana_unif,
                    datos |-> << <<"2024-S2", Sel.valor_m2>>,
                                 <<"2025-S1", Sel.valor_2025_s1>>,
                                 <<"2025-S2", Sel.valor_2025_s2>>,
                                 <<"2026-S1", Sel.valor_2026_s1>>,
                                 <<"2026-S2", Sel.valor_2026_s2>> >>]}
             /\ session_state.buffer_proyeccion \in GraficosDe("proyeccion")

\* a block with its third field missing: warned, no chart
C4_Witness ==
    /\ Paso5Hecho
    /\ Sel.valor_m2 # NaN /\ Sel.valor_2025_s2 = NaN
    /\ "warning: proyeccion incompleta" \in pagina.mensajes
    /\ Len(pagina.graficos) = 2

\* the last execution generated the report
InformeHecho == pagina.bloque = 7 /\ pagina.fin = "ok" /\ pagina.descarga

\* C5: the report generated for a block whose projection series is
\* incomplete has no projection section
C5_ReportOmitsProjection ==
    (InformeHecho /\ SelPresente) =>
        (Incompleta(Sel) =>
            \A i \in 1..Len(session_state.informe_html.tarjetas) :
                session_state.informe_html.tarjetas[i].titulo # "Proyeccion de Valor")

\* C6: step 7, run for a block whose projection series is incomplete,
\* generates and stores the report without an error
C6_IncompleteRecoverable ==
    (pagina.bloque = 7 /\ SelPresente) =>
        (Incompleta(Sel) =>
            /\ pagina.fin = "ok"
            /\ pagina.descarga
            /\ Has(session_state, "informe_html"))

RECURSIVE SumaCantidades(_, _)
SumaCantidades(t, i) == IF i > Len(t) THEN 0 ELSE t[i].cantidad + SumaCantidades(t, i + 1)

\* the count the table gives a category, 0 when it has no row
CantidadDe(t, u) ==
    IF \E i \in 1..Len(t) : t[i].uso = u
    THEN (CHOOSE r \in Range(t) : r.uso = u).cantidad
    ELSE 0

\* no area of the collection gives the block a category
SinCategoria(row) ==
    ~\E i \in 1..Len(datasets.areas) :
        /\ datasets.areas[i].id_area = row.id_area
        /\ datasets.areas[i].num_localidad = row.num_localidad
        /\ datasets.areas[i].uso_pot_simplificado # None

\* C7: the counts of the land-use table sum to the number of subset blocks
\* within 500 m, the blocks without a category counted as unclassified
C7_LandUseCountsSum ==
    Paso5Hecho =>
        /\ Cardinality(GraficosDe("dist_pot")) = 1
        /\ \A g \in GraficosDe("dist_pot") :
              /\ SumaCantidades(g.datos, 1) = Cardinality(EnRadio(Subset, Sel, 500))
              /\ CantidadDe(g.datos, "Sin clasificacion")
                    = Cardinality({i \in EnRadio(Subset, Sel, 500) : SinCategoria(Subset[i])})

\* a block without a category lies within 500 m and is counted
C7_Witness ==
    /\ Paso5Hecho
    /\ \E i \in EnRadio(Subset, Sel, 500) : SinCategoria(Subset[i])
    /\ \E i \in 1..Len(Subset) : i \notin EnRadio(Subset, Sel, 500)
    /\ \E g \in GraficosDe("dist_pot") : CantidadDe(g.datos, "Sin clasificacion") >= 1

\* the majority category step 5 keeps
Mayoritario ==
    IF variante = "prueba" THEN session_state.uso_pot_mayoritario
    ELSE session_state.ficha_estilizada.uso_mayoritario

CuentaEnRadio(u) ==
    Cardinality({i \in EnRadio(Subset, Sel, 500) : Subset[i].uso_pot_simplificado = u})

ClavesPaso5 ==
    {"promedio_area", "promedio_buffer", "buffer_valorm2", "uso_pot_mayoritario",
     "buffer_dist_pot", "buffer_proyeccion", "ficha_estilizada"}

SelAusente ==
    /\ Has(session_state, "manzana_sel") /\ Has(session_state, "manzanas_localidad_sel")
    /\ \A i \in 1..Len(Subset) : Subset[i].id_manzana_unif # session_state.manzana_sel

\* C9: when step 5 runs for a block id absent from the stored subset, it
\* ends without exception showing an error message, draws nothing and
\* leaves every result key of step 5 as it was
C9_BlockNotFound ==
    [][(pagina'.bloque = 5 /\ SelAusente') =>
          /\ pagina'.fin = "ok"
          /\ \E msg \in pagina'.mensajes :
                msg \in {"error: no se encontro la manzana seleccionada",
                         "error: no se pudo recuperar la manzana seleccionada"}
          /\ pagina'.graficos = <<>>
          /\ \A k \in ClavesPaso5 :
                /\ Has(session_state', k) <=> Has(session_state, k)
                /\ Has(session_state, k) => session_state'[k] = session_state[k]]_vars

\* step 5 has run for a block id that the stored subset does not hold
C9_Witness ==
    /\ pagina.bloque = 5
    /\ SelAusente
    /\ session_state.step = 5
    /\ pagina.graficos = <<>>

\* the rows of the district table that carry the confirmed name
FilasDeNombre ==
    {i \in 1..Len(datasets.localidades) :
        datasets.localidades[i].nombre_localidad = session_state.localidad_sel}

\* the confirmed name resolves to no code, or to a code no block carries
DistritoSinManzanas ==
    /\ Has(session_state, "localidad_sel")
    /\ \/ FilasDeNombre = {}
       \/ \E i \in FilasDeNombre :
             /\ \A j \in FilasDeNombre : i <= j
             /\ \A k \in 1..Len(datasets.manzanas) :
                   datasets.manzanas[k].num_localidad # datasets.localidades[i].num_localidad

\* C11: an execution of step 3 for a district without code or without blocks
\* shows a message, offers no confirmation of a block, stays at step 3 and
\* leaves the stored subset and the confirmed block as they were
C11_EmptyDistrictHalts ==
    [][(pagina'.bloque = 3 /\ DistritoSinManzanas') =>
          /\ "Confirmar Manzana y Continuar" \notin pagina'.botones
          /\ pagina'.mensajes # {}
          /\ session_state'.step = 3
          /\ \A k \in {"manzanas_localidad_sel", "manzana_sel", "color_map"} :
                /\ Has(session_state', k) <=> Has(session_state, k)
                /\ Has(session_state, k) => session_state'[k] = session_state[k]]_vars

\* step 3 has run for the district without blocks while a block click of an
\* earlier district is still remembered
C11_Witness ==
    /\ pagina.bloque = 3
    /\ DistritoSinManzanas
    /\ Has(session_state, "manzana_clic")
    /\ session_state.manzana_clic # None
    /\ "Confirmar Manzana y Continuar" \notin pagina.botones

\* the row of the block collection that step 4 analyses
EnColeccion ==
    /\ Has(session_state, "manzana_sel")
    /\ \E i \in 1..Len(datasets.manzanas) :
          datasets.manzanas[i].id_manzana_unif = session_state.manzana_sel

SelColeccion ==
    datasets.manzanas[CHOOSE i \in 1..Len(datasets.manzanas) :
                          datasets.manzanas[i].id_manzana_unif = session_state.manzana_sel]

\* the groups of a point collection that carry the id
GruposDe(col, id) == {i \in 1..Len(datasets[col]) : datasets[col][i].id = id}

\* the id is null or names no group of the collection
SinGrupo(col, id) == id = None \/ GruposDe(col, id) = {}

\* the id names a group that is a multi-point
GrupoMultiple(col, id) ==
    /\ id # None
    /\ \E i \in GruposDe(col, id) : \A j \in GruposDe(col, id) : i <= j
          /\ datasets[col][i].geom_type = "MultiPoint"

\* the page shows the map of the kind with the given points, and the session
\* holds that map under the key
MapaCon(fig, clave, puntos) ==
    /\ \E g \in GraficosDe(fig) : g.datos.puntos = puntos
    /\ Has(session_state, clave)
    /\ session_state[clave] \in GraficosDe(fig)
    /\ session_state[clave].datos.puntos = puntos

\* C12: step 4, run for a block whose transit group id or school group id is
\* null or names no group, ends without error with both maps drawn and
\* stored, the map of such an id without points
C12_MissingGroupEmptySet ==
    (/\ pagina.bloque = 4
     /\ EnColeccion
     /\ SinGrupo("transporte", SelColeccion.id_combi_acceso)
           \/ GrupoMultiple("transporte", SelColeccion.id_combi_acceso)
     /\ SinGrupo("colegios", SelColeccion.id_com_colegios)
           \/ GrupoMultiple("colegios", SelColeccion.id_com_colegios)
     /\ SinGrupo("transporte", SelColeccion.id_combi_acceso)
           \/ SinGrupo("colegios", SelColeccion.id_com_colegios))
    => /\ pagina.fin = "ok"
       /\ Cardinality(GraficosDe("transporte")) = 1
       /\ Cardinality(GraficosDe("colegios")) = 1
       /\ SinGrupo("transporte", SelColeccion.id_combi_acceso)
             => MapaCon("transporte", "buffer_transporte", <<>>)
       /\ SinGrupo("colegios", SelColeccion.id_com_colegios)
             => MapaCon("colegios", "buffer_colegios", <<>>)

\* the first group of the collection that carries the id
PrimerGrupo(col, id) ==
    datasets[col][CHOOSE i \in GruposDe(col, id) : \A j \in GruposDe(col, id) : i <= j]

\* C13: step 4, run for a block whose transit and school group ids are
\* non-null and name a group, ends without error whether the group is a
\* single point or a multi-point, each map showing the points of its group
C13_PointOrMultiPoint ==
    (/\ pagina.bloque = 4
     /\ EnColeccion
     /\ ~SinGrupo("transporte", SelColeccion.id_combi_acceso)
     /\ ~SinGrupo("colegios", SelColeccion.id_com_colegios))
    => /\ pagina.fin = "ok"
       /\ MapaCon("transporte", "buffer_transporte",
                  PrimerGrupo("transporte", SelColeccion.id_combi_acceso).geoms)
       /\ MapaCon("colegios", "buffer_colegios",
                  PrimerGrupo("colegios", SelColeccion.id_com_colegios).geoms)

\* every block has a complete record
RegistrosCompletos ==
    \A i \in 1..Len(datasets.manzanas) :
        /\ ~Incompleta(datasets.manzanas[i])
        /\ datasets.manzanas[i].id_area # None
        /\ GrupoMultiple("transporte", datasets.manzanas[i].id_combi_acceso)
        /\ GrupoMultiple("colegios", datasets.manzanas[i].id_com_colegios)

\* the collections are loaded, complete and name every district once
DatosValidos ==
    /\ cache = "datos"
    /\ RegistrosCompletos
    /\ \A i \in 1..Len(datasets.areas) : datasets.areas[i].uso_pot_simplificado # None
    /\ \A i, j \in 1..Len(datasets.localidades) :
          datasets.localidades[i].nombre_localidad = datasets.localidades[j].nombre_localidad
             => i = j

\* the district of the confirmed name holds the block with the id
ManzanaDelDistrito(id) ==
    \E i \in 1..Len(datasets.manzanas) : \E j \in 1..Len(datasets.localidades) :
        /\ datasets.manzanas[i].id_manzana_unif = id
        /\ datasets.manzanas[i].num_localidad = datasets.localidades[j].num_localidad
        /\ datasets.localidades[j].nombre_localidad = session_state.localidad_sel

\* the session so far went only forward: a district was confirmed, then, from
\* step 4 on, a block of that district
CaminoDirecto ==
    /\ retrocesos = 0
    /\ pagina.bloque >= 3 => Has(session_state, "localidad_sel")
    /\ pagina.bloque >= 4 => /\ Has(session_state, "manzana_sel")
                             /\ ManzanaDelDistrito(session_state.manzana_sel)

\* C14: over valid data, a session that confirms a district and a block of it
\* and only advances never ends a step in an unhandled error, and its step 7
\* stores the report and offers it for download
C14_HappyPathReachesReport ==
    (DatosValidos /\ CaminoDirecto) =>
        /\ pagina.fin # "excepcion"
        /\ pagina.bloque = 7 =>
              /\ Has(session_state, "informe_html")
              /\ pagina.descarga

\* the last execution drew the security chart of step 6
Paso6Hecho == pagina.bloque = 6 /\ pagina.fin = "ok" /\ GraficosDe("seguridad") # {}

\* the rows of the security table, in table order
TablaSeguridad == pagina.graficos[1].datos

\* the table has the name, crime count and risk level of the district
FilaDe(t, i, loc) ==
    /\ t[i].nombre_localidad = loc.nombre_localidad
    /\ t[i].cantidad_delitos = loc.cantidad_delitos
    /\ t[i].nivel_riesgo_delictivo = loc.nivel_riesgo_delictivo

\* every district has as many rows in the table as the district table has
\* rows like it, and the table has no other row
UnaFilaPorLocalidad(t) ==
    /\ Len(t) = Len(datasets.localidades)
    /\ \A j \in 1..Len(datasets.localidades) :
          Cardinality({i \in 1..Len(t) : FilaDe(t, i, datasets.localidades[j])})
             = Cardinality({k \in 1..Len(datasets.localidades) :
                               /\ datasets.localidades[k].nombre_localidad
                                     = datasets.localidades[j].nombre_localidad
                               /\ datasets.localidades[k].cantidad_delitos
                                     = datasets.localidades[j].cantidad_delitos
                               /\ datasets.localidades[k].nivel_riesgo_delictivo
                                     = datasets.localidades[j].nivel_riesgo_delictivo})

EsFilaDeCodigo(t, i, cod) ==
    \E j \in 1..Len(datasets.localidades) :
        /\ datasets.localidades[j].num_localidad = cod
        /\ FilaDe(t, i, datasets.localidades[j])

\* C16: in the security table of step 6 the row of the selected block's
\* district, and no other, is marked as current and labelled with its risk
\* level; the other rows are unmarked and have an empty label
C16_OnlyCurrentDistrictMarked ==
    (Paso6Hecho /\ SelPresente) =>
        \A i \in 1..Len(TablaSeguridad) :
            IF EsFilaDeCodigo(TablaSeguridad, i, Sel.num_localidad)
            THEN /\ TablaSeguridad[i].es_localidad_actual
                 /\ TablaSeguridad[i].etiqueta = TablaSeguridad[i].nivel_riesgo_delictivo
            ELSE /\ ~TablaSeguridad[i].es_localidad_actual
                 /\ TablaSeguridad[i].etiqueta = ""

\* the districts, by position in the collection, whose interior holds x
Contenedoras(x) ==
    {i \in 1..Len(datasets.localidades) :
        /\ datasets.localidades[i].geometry.lo < x
        /\ x < datasets.localidades[i].geometry.hi}

\* the map of step 2 of avm.py is clicked at x
ClicEn(x) ==
    /\ variante = "avm"
    /\ pagina.bloque = 2
    /\ session_state.step = 2
    /\ Aplicar(Evento("punto", x, TRUE))

\* C17: a click on the map of step 2 is resolved to the first district, in
\* collection order, that contains the point; a click that no district
\* contains leaves the clicked district as it was, and with none remembered
\* no confirmation is offered
C17_FirstContainingDistrict ==
    [][\A x \in PuntosClic :
          ClicEn(x) =>
             IF Contenedoras(x) # {}
             THEN /\ Has(session_state', "localidad_clic")
                  /\ \E i \in Contenedoras(x) :
                        /\ \A j \in Contenedoras(x) : i <= j
                        /\ session_state'.localidad_clic
                              = datasets.localidades[i].nombre_localidad
             ELSE /\ Has(session_state', "localidad_clic")
                        <=> Has(session_state, "localidad_clic")
                  /\ Has(session_state, "localidad_clic") =>
                        session_state'.localidad_clic = session_state.localidad_clic
                  /\ ~Has(session_state, "localidad_clic") =>
                        "Confirmar seleccion" \notin pagina'.botones]_vars

\* districts 2 and 3 overlap and a click inside both has been resolved to
\* district 2, the first of them
C17_Witness ==
    /\ variante = "avm"
    /\ pagina.bloque = 2
    /\ datasets.localidades[3].geometry.lo < datasets.localidades[2].geometry.hi
    /\ Has(session_state, "localidad_clic")
    /\ session_state.localidad_clic = datasets.localidades[2].nombre_localidad
    /\ "Confirmar seleccion" \in pagina.botones

\* the reference collections the session holds are the ones that were loaded
ColeccionesIntactas ==
    \A k \in {"localidades", "areas", "manzanas", "transporte", "colegios"} :
        Has(session_state, k) => session_state[k] = datasets[k]

\* C18: the five reference collections of the session are never changed
\* between their storing and a restart, and an interaction at step 5 or
\* later that is no restart leaves the stored district subset as it was
C18_CollectionsReadOnly ==
    /\ []ColeccionesIntactas
    /\ [][/\ \A k \in {"localidades", "areas", "manzanas", "transporte", "colegios"} :
                (Has(session_state, k) /\ Has(session_state', k))
                   => session_state'[k] = session_state[k]
          /\ (/\ Has(session_state, "step")
              /\ session_state.step >= 5
              /\ Has(session_state, "manzanas_localidad_sel")
              /\ Has(session_state', "localidades"))
             => /\ Has(session_state', "manzanas_localidad_sel")
                /\ session_state'.manzanas_localidad_sel
                      = session_state.manzanas_localidad_sel]_vars

\* the report was generated after a step back, the collections are as loaded
\* and the district subset is a frame of its own
C18_Witness ==
    /\ InformeHecho
    /\ retrocesos >= 1
    /\ ColeccionesIntactas
    /\ Has(session_state, "manzanas")
    /\ Has(session_state, "manzanas_localidad_sel")
    /\ session_state.manzanas_localidad_sel # session_state.manzanas

\* C19: every value and every image of the step 7 report was computed for
\* the block that is confirmed when the report is generated: the summary
\* table and the image of every card carry the id of manzana_sel
C19_ReportOfCurrentBlock ==
    InformeHecho =>
        /\ session_state.informe_html.manzana = session_state.manzana_sel
        /\ session_state.informe_html.ficha.id_manzana = session_state.manzana_sel
        /\ \A i \in 1..Len(session_state.informe_html.tarjetas) :
               session_state.informe_html.tarjetas[i].img.manzana
                   = session_state.manzana_sel

\* every row of the stored subset carries the code of a district that has
\* the confirmed name
SubsetDelDistrito ==
    /\ Has(session_state, "localidad_sel")
    /\ \A i \in 1..Len(Subset) :
          \E j \in FilasDeNombre :
              Subset[i].num_localidad = datasets.localidades[j].num_localidad

\* C20: whenever the wizard is at step 4 or later, manzana_sel is the id of
\* a block of the stored subset, and the stored subset is the one of the
\* confirmed district
C20_SelectionInSubset ==
    (Has(session_state, "step") /\ session_state.step >= 4 /\ pagina.bloque >= 4) =>
        /\ SelPresente
        /\ SubsetDelDistrito

\* the confirmed block id is the id of a row of the block collection
SelEnManzanas ==
    /\ Has(session_state, "manzana_sel") /\ Has(session_state, "manzanas")
    /\ \E i \in 1..Len(session_state.manzanas) :
          session_state.manzanas[i].id_manzana_unif = session_state.manzana_sel

\* the interaction moves the wizard from step a to step b
Transicion(a, b) ==
    /\ Has(session_state, "step") /\ session_state.step = a
    /\ Has(session_state', "step") /\ session_state'.step = b

\* C21: the wizard goes from step 4 to step 5 only when the confirmed block
\* id was found in the block collection, and from step 5 to 6 and from 6 to
\* 7 only when it was found in the stored subset of the district
C21_NotFoundHalts ==
    [][/\ Transicion(4, 5) => SelEnManzanas
       /\ Transicion(5, 6) => SelPresente
       /\ Transicion(6, 7) => SelPresente]_vars

\* step 5 ran for a block that step 4 found in the collection and that the
\* stored subset does not hold: the way forward is not offered
C21_Witness ==
    /\ pagina.bloque = 5 /\ pagina.fin = "ok"
    /\ SelEnManzanas /\ SelAusente
    /\ "Continuar al Analisis de Seguridad" \notin pagina.botones
    /\ pagina.botones # {}

\* the code of the confirmed district: that of the first row with its name
CodigoConfirmado ==
    datasets.localidades[CHOOSE i \in FilasDeNombre :
                             \A j \in FilasDeNombre : i <= j].num_localidad

EsDelDistritoConfirmado(row) == row.num_localidad = CodigoConfirmado

\* the blocks of the confirmed district, in the order of the collection
ManzanasDelDistrito == SelectSeq(datasets.manzanas, EsDelDistritoConfirmado)

\* the areas of the confirmed district that carry the area id of the block
\* and a category
AreasCon(row) ==
    {i \in 1..Len(datasets.areas) :
        /\ datasets.areas[i].num_localidad = CodigoConfirmado
        /\ row.id_area # None
        /\ datasets.areas[i].id_area = row.id_area
        /\ datasets.areas[i].uso_pot_simplificado # None}

\* the category the enrichment owes a block
CategoriaDebida(row) ==
    IF AreasCon(row) = {} THEN "Sin clasificacion"
    ELSE datasets.areas[CHOOSE i \in AreasCon(row) : TRUE].uso_pot_simplificado

\* the confirmed name has a code and at least one block carries it
DistritoConManzanas ==
    /\ Has(session_state, "localidad_sel")
    /\ FilasDeNombre # {}
    /\ Len(ManzanasDelDistrito) > 0

\* the stored subset is the blocks of the district, each once, in order,
\* each with the category owed
SubsetDebido ==
    /\ Len(Subset) = Len(ManzanasDelDistrito)
    /\ \A i \in 1..Len(Subset) :
          Subset[i] = ("uso_pot_simplificado" :> CategoriaDebida(ManzanasDelDistrito[i]))
                         @@ ManzanasDelDistrito[i]

\* C22: for a district with at least one block, step 3 of prueba.py and of
\* avm_migra.py produces the enriched subset (no exception), and the subset
\* it stores holds exactly the blocks of the district, once each and in
\* order, each with the category of its area or "Sin clasificacion"
C22_EnrichedSubset ==
    /\ []((pagina.bloque = 3 /\ variante # "avm" /\ DistritoConManzanas)
            => pagina.fin = "ok")
    /\ [][(Transicion(3, 4) /\ DistritoConManzanas') => SubsetDebido']_vars

\* C23: the wizard has no dead end: every execution that ends without an
\* unhandled exception, also one that reports an error or an empty result,
\* offers at least one button
C23_NoDeadEnd ==
    pagina.fin \in {"ok", "stop"} => pagina.botones # {}

\* the button b of the page is pressed
Pulsa(b) == b \in pagina.botones /\ Aplicar(Evento("boton", b, TRUE))

\* C25: after "Reiniciar App" or "Reiniciar Aplicacion" the wizard is at
\* step 1 and the session holds nothing but the step; "Volver al Inicio"
\* sets the step to 1 and leaves every other key of the session as it was
C25_RestartClears ==
    [][/\ \A b \in {"Reiniciar App", "Reiniciar Aplicacion"} :
             Pulsa(b) => /\ DOMAIN session_state' = {"step"}
                         /\ session_state'.step = 1
       /\ Pulsa("Volver al Inicio") =>
             /\ session_state'.step = 1
             /\ DOMAIN session_state' = DOMAIN session_state
             /\ \A k \in DOMAIN session_state \ {"step"} :
                   session_state'[k] = session_state[k]]_vars

\* a restart has emptied a session that had been loaded: the page is that of
\* step 1 again
C25_Witness ==
    /\ retrocesos >= 1
    /\ cache = "datos"
    /\ DOMAIN session_state = {"step"}
    /\ session_state.step = 1
    /\ pagina.bloque = 1

ColeccionesEnSesion == DOMAIN session_state \cap DatasetNames

\* C26: at step 2 or later the session holds the five reference
\* collections; it holds all five or none; and as long as no load has
\* succeeded it holds none and the wizard is at step 1
C26_LoadAllOrNothing ==
    /\ (Has(session_state, "step") /\ session_state.step >= 2)
          => ColeccionesEnSesion = DatasetNames
    /\ ColeccionesEnSesion \in {{}, DatasetNames}
    /\ cache # "datos" =>
          /\ ColeccionesEnSesion = {}
          /\ Has(session_state, "step") /\ session_state.step = 1

\* "Iniciar Analisis" was pressed and the load failed: the error is shown,
\* nothing is stored and the wizard is at step 1
C26_Witness ==
    /\ pagina.bloque = 1
    /\ "error: no se pudieron cargar los datos" \in pagina.mensajes
    /\ cache # "datos"
    /\ ColeccionesEnSesion = {}
    /\ session_state.step = 1

\* the ids of the rows of a frame
Ids(df) == {df[i].id_manzana_unif : i \in 1..Len(df)}

\* the 300 m neighbour set and the 500 m land-use subset of the selected block
Vecinas300 == manzanas_buffer(Subset, Sel.geometry, Radio300)
Uso500 == manzanas_buffer(Subset, Sel.geometry, Radio500)

ParesArea == manzanas_area(variante, Subset, Sel.id_area)

\* C28: when step 5 finds the selected block, the block is in its own 300 m
\* neighbour set and 500 m land-use subset and, with a non-null id_area, in
\* its own area-peer set; the land-use table is drawn and not empty, and the
\* area-peer set is empty only for a block without id_area
C28_SelfMembership ==
    Paso5Hecho =>
        /\ Sel.id_manzana_unif \in Ids(Vecinas300)
        /\ Sel.id_manzana_unif \in Ids(Uso500)
        /\ Sel.id_area # None => Sel.id_manzana_unif \in Ids(ParesArea)
        /\ empty(ParesArea) => Sel.id_area = None
        /\ "warning: sin datos de uso POT" \notin pagina.mensajes
        /\ \A g \in GraficosDe("dist_pot") : SumaCantidades(g.datos, 1) >= 1
        /\ GraficosDe("dist_pot") # {}

\* step 5 ran for a block without id_area: its area-peer set is empty, its
\* neighbour set and land-use subset hold the block itself
C28_Witness ==
    /\ Paso5Hecho
    /\ Sel.id_area = None
    /\ empty(ParesArea)
    /\ Barra(2) = 0
    /\ Sel.id_manzana_unif \in Ids(Vecinas300)

\* the first position of the 500 m subset that carries the category
PrimeraAparicion(u) ==
    CHOOSE i \in EnRadio(Subset, Sel, 500) :
        /\ Subset[i].uso_pot_simplificado = u
        /\ \A j \in EnRadio(Subset, Sel, 500) :
              Subset[j].uso_pot_simplificado = u => i <= j

\* C29: the land-use table of step 5 is ordered by count descending, and
\* categories with equal counts stand in the order in which the 500 m
\* subset first shows them
C29_DistributionOrder ==
    Paso5Hecho =>
        \A g \in GraficosDe("dist_pot") :
            \A i, j \in 1..Len(g.datos) :
                i < j =>
                    /\ g.datos[i].cantidad >= g.datos[j].cantidad
                    /\ g.datos[i].cantidad = g.datos[j].cantidad =>
                          PrimeraAparicion(g.datos[i].uso) < PrimeraAparicion(g.datos[j].uso)

\* C30: the step is always an integer from 1 to 7, and an interaction that
\* raises it raises it by one: from 1 with the collections loaded and
\* stored, from 2 with a district confirmed, from 3 with a block confirmed;
\* every other interaction keeps or lowers it
C30_StepByStep ==
    /\ [](Has(session_state, "step") /\ session_state.step \in 1..7)
    /\ [][/\ session_state'.step <= session_state.step + 1
          /\ Transicion(1, 2) =>
                cache' = "datos" /\ DatasetNames \subseteq DOMAIN session_state'
          /\ Transicion(2, 3) => Has(session_state', "localidad_sel")
          /\ Transicion(3, 4) =>
                /\ Has(session_state', "manzana_sel")
                /\ Has(session_state', "manzanas_localidad_sel")]_vars

\* the whole flow was walked, once more after a step back
C30_Witness ==
    /\ session_state.step = 7
    /\ pagina.bloque = 7
    /\ retrocesos >= 1
    /\ Has(session_state, "localidad_sel") /\ Has(session_state, "manzana_sel")

====
